---- MODULE Spec2Model ----
(***************************************************************************)
(* Model of cad/pc104_stand.py: the PC104Spec and StandSpec records, the   *)
(* construction pipeline make_pc104_standoff and the __main__ driver.      *)
(*                                                                         *)
(* Lengths are integers in hundredths of a millimetre (2.54 mm = 254).     *)
(* Every quantity the code halves is drawn even, so Half is exact.         *)
(* The solid p is kept as the ordered list of boolean operations applied   *)
(* to it; a point is material iff the last operation whose primitive       *)
(* contains the point is an addition.                                      *)
(***************************************************************************)
EXTENDS Integers, Sequences, FiniteSets

VARIABLES
    entry,        \* "call": make_pc104_standoff called with some specs; "main": run as a script
    pc104,        \* the PC104Spec passed to make_pc104_standoff
    part_spec,    \* the StandSpec passed to make_pc104_standoff
    p,            \* the accumulated solid: sequence of [op, prim]
    pc,           \* position in the program
    hole_idx,     \* index of the current item of hole_coord_list.items()
    dir_exists,   \* whether <repo>/build exists
    files,        \* file name -> "absent" | "old" | "new" | "partial", in <repo>/build
    is_manifold,  \* result of part.is_manifold: "unread", "true" or "false"
    part_idx,     \* index of the current item of parts.items()
    log,          \* sequence of logged lines
    exported      \* sequence of file names exported by this run

vars == <<entry, pc104, part_spec, p, pc, hole_idx, part_idx, dir_exists,
          files, is_manifold, log, exported>>

----------------------------------------------------------------------------
(* Bounds of the explored inputs *)

MaxPinCountX == 5

MinPinCountY == 24

MaxPinCountY == 27

\* Spacing of the heights at which the solid is probed for material.
ProbeStep == 250

----------------------------------------------------------------------------
(* Literals of make_pc104_standoff, in hundredths of a millimetre *)

HoleCutterHeight == 2000

NWCutterOffset == -1000

SlotMarginX == 800

SlotMarginY == 300

SlotHeight == 2000

Half(v) == v \div 2

----------------------------------------------------------------------------
(* PC104Spec *)

PC104Default ==
    [top_left_pin_coord |-> <<0, 0>>,
     pin_count_x        |-> 4,
     pin_count_y        |-> 26,
     pin_pitch          |-> 254,
     box_width_x        |-> 9454,
     box_height_y       |-> 8810,
     box_top_left_coord |-> <<-440, 1163>>]

PC104Specs ==
    [top_left_pin_coord : {<<0, 0>>, <<126, -254>>},
     pin_count_x        : 1..MaxPinCountX,
     pin_count_y        : MinPinCountY..MaxPinCountY,
     pin_pitch          : {254, 200},
     box_width_x        : {9454},
     box_height_y       : {8810, 9000},
     box_top_left_coord : {<<-440, 1163>>}]

\* Variant: the last key mistyped as "SW"; a dictionary keeps one item per
\* key, at the key's first place and with its last value.
hole_coord_list_dupkey(self) ==
    << <<"NW", <<0, 508>>>>,
       <<"NE", <<8573, 762>>>>,
       <<"SW", <<8573, -7239>>>> >>

\* The items of the dictionary, in insertion order: <<name, <<x, y>>>>.
hole_coord_list(self) ==
    << <<"NW", <<0, 508>>>>,
       <<"NE", <<8573, 762>>>>,
       <<"SW", <<0, -6858>>>>,
       <<"SE", <<8573, -7239>>>> >>

\* Variant: the span of n pins taken as n pitches instead of n - 1.
stack_headers_center_coord_fencepost(self) ==
    << self.top_left_pin_coord[1] + Half(self.pin_count_x * self.pin_pitch),
       self.top_left_pin_coord[2] - Half(self.pin_count_y * self.pin_pitch) >>

\* Variant: the Y coordinate computed from pin_count_x.
stack_headers_center_coord_xcount(self) ==
    << self.top_left_pin_coord[1]
         + Half((self.pin_count_x - 1) * self.pin_pitch),
       self.top_left_pin_coord[2]
         - Half((self.pin_count_x - 1) * self.pin_pitch) >>

stack_headers_center_coord(self) ==
    << self.top_left_pin_coord[1]
         + Half((self.pin_count_x - 1) * self.pin_pitch),
       self.top_left_pin_coord[2]
         - Half((self.pin_count_y - 1) * self.pin_pitch) >>

----------------------------------------------------------------------------
(* StandSpec *)

StandDefault ==
    [base_plate_thickness      |-> 200,
     plate_plate_corner_radius |-> 300,
     standoff_total_height     |-> 950,
     standoff_id               |-> 350,
     standoff_od_east          |-> 650,
     standoff_od_west          |-> 580]

StandSpecs ==
    [base_plate_thickness      : {200, 300},
     plate_plate_corner_radius : {300},
     standoff_total_height     : {950, 1200, 2500},
     standoff_id               : {350},
     standoff_od_east          : {650, 700},
     standoff_od_west          : {580}]

----------------------------------------------------------------------------
(* The geometry kernel's primitives, as far as the script uses them.       *)
(* A primitive is a box or a cylinder of a given size, aligned per axis    *)
(* ("MIN", "CENTER" or "MAX") on the point it is translated to.            *)

Box(length, width, height, align) ==
    [shape |-> "box", size |-> <<length, width, height>>, radius |-> 0,
     align |-> align, at |-> <<0, 0, 0>>, fillet |-> 0]

Cylinder(radius, height, align) ==
    [shape |-> "cyl", size |-> <<2 * radius, 2 * radius, height>>,
     radius |-> radius, align |-> align, at |-> <<0, 0, 0>>, fillet |-> 0]

translate(prim, v) ==
    [prim EXCEPT !.at = <<prim.at[1] + v[1], prim.at[2] + v[2], prim.at[3] + v[3]>>]

\* fillet of the edges parallel to the Z axis (the four vertical edges of a box)
fillet(prim, radius) == [prim EXCEPT !.fillet = radius]

Lo(prim, i) ==
    CASE prim.align[i] = "MIN"    -> prim.at[i]
      [] prim.align[i] = "CENTER" -> prim.at[i] - Half(prim.size[i])
      [] prim.align[i] = "MAX"    -> prim.at[i] - prim.size[i]

Hi(prim, i) == Lo(prim, i) + prim.size[i]

Max2(a, b) == IF a >= b THEN a ELSE b

Min2(a, b) == IF a <= b THEN a ELSE b

\* How far coordinate v lies inside the fillet zone next to either end of [lo, hi].
CornerDepth(lo, hi, f, v) == Max2(0, Max2((lo + f) - v, v - (hi - f)))

\* Whether point pt = <<x, y, z>> belongs to the primitive (Z half-open).
InPrim(prim, pt) ==
    /\ \A i \in 1..2 : Lo(prim, i) <= pt[i] /\ pt[i] <= Hi(prim, i)
    /\ Lo(prim, 3) <= pt[3] /\ pt[3] < Hi(prim, 3)
    /\ prim.shape = "cyl" =>
         LET dx == pt[1] - (Lo(prim, 1) + prim.radius)
             dy == pt[2] - (Lo(prim, 2) + prim.radius)
         IN  dx * dx + dy * dy <= prim.radius * prim.radius
    /\ (prim.shape = "box" /\ prim.fillet > 0) =>
         LET ux == CornerDepth(Lo(prim, 1), Hi(prim, 1), prim.fillet, pt[1])
             uy == CornerDepth(Lo(prim, 2), Hi(prim, 2), prim.fillet, pt[2])
         IN  (ux > 0 /\ uy > 0) => ux * ux + uy * uy <= prim.fillet * prim.fillet

\* p += prim and p -= prim
Add(solid, prim) == Append(solid, [op |-> "add", prim |-> prim])

Sub(solid, prim) == Append(solid, [op |-> "sub", prim |-> prim])

\* Whether the solid has material at pt: the last operation covering pt decides.
Material(solid, pt) ==
    LET hits == {i \in 1..Len(solid) : InPrim(solid[i].prim, pt)}
    IN  /\ hits # {}
        /\ solid[CHOOSE i \in hits : \A j \in hits : j <= i].op = "add"

\* Bounding box <<xlo, xhi, ylo, yhi, zlo, zhi>> of what has been added.  A
\* subtraction never enlarges a solid, so the solid lies inside this box.
RECURSIVE BoundingBox(_)
BoundingBox(solid) ==
    IF solid = <<>> THEN <<0, 0, 0, 0, 0, 0>>
    ELSE LET last == solid[Len(solid)]
             rest == SubSeq(solid, 1, Len(solid) - 1)
             b    == BoundingBox(rest)
             q    == last.prim
             own  == <<Lo(q, 1), Hi(q, 1), Lo(q, 2), Hi(q, 2), Lo(q, 3), Hi(q, 3)>>
             adds == {i \in 1..Len(rest) : rest[i].op = "add"}
         IN  IF last.op = "sub" THEN b
             ELSE IF adds = {} THEN own
             ELSE <<Min2(b[1], own[1]), Max2(b[2], own[2]),
                    Min2(b[3], own[3]), Max2(b[4], own[4]),
                    Min2(b[5], own[5]), Max2(b[6], own[6])>>

----------------------------------------------------------------------------
(* make_pc104_standoff: the primitives it builds *)

AlignPlate == <<"MIN", "MAX", "MIN">>

AlignCentered == <<"CENTER", "CENTER", "MIN">>

\* Variant: the plate centred on box_top_left_coord instead of hanging from it.
base_plate_centered(board, part) ==
    fillet(translate(Box(board.box_width_x, board.box_height_y,
                         part.base_plate_thickness, AlignCentered),
                     <<board.box_top_left_coord[1], board.box_top_left_coord[2], 0>>),
           part.plate_plate_corner_radius)

base_plate(board, part) ==
    fillet(translate(Box(board.box_width_x, board.box_height_y,
                         part.base_plate_thickness, AlignPlate),
                     <<board.box_top_left_coord[1], board.box_top_left_coord[2], 0>>),
           part.plate_plate_corner_radius)

\* Variant: the east diameter used on every side.
standoff_radius_east_only(part, hole_name) == Half(part.standoff_od_east)

standoff_radius(part, hole_name) ==
    Half(IF hole_name \in {"NE", "SE"}
         THEN part.standoff_od_east
         ELSE part.standoff_od_west)

standoff(part, hole_name, hole_coord) ==
    translate(Cylinder(standoff_radius(part, hole_name),
                       part.standoff_total_height, AlignCentered),
              <<hole_coord[1], hole_coord[2], 0>>)

\* Variant: every hole cut from below the plate, as NW is.
hole_z_offset_all_below(part, hole_name) == NWCutterOffset

hole_z_offset(part, hole_name) ==
    IF hole_name # "NW" THEN part.base_plate_thickness ELSE NWCutterOffset

hole_cutter(part, hole_name, hole_coord) ==
    translate(Cylinder(Half(part.standoff_id), HoleCutterHeight, AlignCentered),
              <<hole_coord[1], hole_coord[2], hole_z_offset(part, hole_name)>>)

\* Variant: the hole subtracted before its standoff is added.
hole_loop_body_hole_first(part, hole_name, hole_coord) ==
    << [op |-> "sub", prim |-> hole_cutter(part, hole_name, hole_coord)],
       [op |-> "add", prim |-> standoff(part, hole_name, hole_coord)] >>

\* The two boolean operations of one pass of the loop over the holes, in order.
hole_loop_body(part, hole_name, hole_coord) ==
    << [op |-> "add", prim |-> standoff(part, hole_name, hole_coord)],
       [op |-> "sub", prim |-> hole_cutter(part, hole_name, hole_coord)] >>

\* Variant: the slot box hanging from the header centre instead of centred on it.
header_slot_corner_aligned(board) ==
    translate(Box(board.pin_count_x * board.pin_pitch + SlotMarginX,
                  board.pin_count_y * board.pin_pitch + SlotMarginY,
                  SlotHeight, AlignPlate),
              <<stack_headers_center_coord(board)[1],
                stack_headers_center_coord(board)[2], 0>>)

\* Variant: the X and Y margins exchanged.
header_slot_margins_swapped(board) ==
    translate(Box(board.pin_count_x * board.pin_pitch + SlotMarginY,
                  board.pin_count_y * board.pin_pitch + SlotMarginX,
                  SlotHeight, AlignCentered),
              <<stack_headers_center_coord(board)[1],
                stack_headers_center_coord(board)[2], 0>>)

header_slot(board) ==
    translate(Box(board.pin_count_x * board.pin_pitch + SlotMarginX,
                  board.pin_count_y * board.pin_pitch + SlotMarginY,
                  SlotHeight, AlignCentered),
              <<stack_headers_center_coord(board)[1],
                stack_headers_center_coord(board)[2], 0>>)

----------------------------------------------------------------------------
(* The driver's names *)

Parts == <<"pc104_standoff">>

StlName(name) == <<name, "stl">>

StepName(name) == <<name, "step">>

FileNames == {StlName(Parts[i]) : i \in 1..Len(Parts)}
             \cup {StepName(Parts[i]) : i \in 1..Len(Parts)}

NoFiles == [f \in FileNames |-> "absent"]

----------------------------------------------------------------------------
(* Initial states: either make_pc104_standoff is called with some specs,   *)
(* or the script is run and builds the part from the default specs.        *)

Init ==
    /\ entry \in {"call", "main"}
    /\ pc104 \in IF entry = "main" THEN {PC104Default} ELSE PC104Specs \cup {PC104Default}
    /\ part_spec \in IF entry = "main" THEN {StandDefault} ELSE StandSpecs \cup {StandDefault}
    /\ p = <<>>
    /\ pc = "base_plate"
    /\ hole_idx = 0
    /\ part_idx = 0
    /\ dir_exists \in IF entry = "main" THEN BOOLEAN ELSE {FALSE}
    /\ files \in IF dir_exists THEN [FileNames -> {"absent", "old"}] ELSE {NoFiles}
    /\ is_manifold = "unread"
    /\ log = <<>>
    /\ exported = <<>>

----------------------------------------------------------------------------
(* make_pc104_standoff, one action per boolean operation *)

UnchangedDriver == UNCHANGED <<entry, pc104, part_spec, part_idx, dir_exists,
                               files, is_manifold, log, exported>>

\* lines 80-97: p = Part(None); p += the filleted base plate
AddBasePlate ==
    /\ pc = "base_plate"
    /\ p' = Add(p, base_plate(pc104, part_spec))
    /\ hole_idx' = 1
    /\ pc' = "standoff"
    /\ UnchangedDriver

\* lines 100-116: p += the standoff of the current hole
AddStandoff ==
    /\ pc = "standoff"
    /\ LET item == hole_coord_list(pc104)[hole_idx]
       IN  p' = Append(p, hole_loop_body(part_spec, item[1], item[2])[1])
    /\ pc' = "hole"
    /\ UNCHANGED hole_idx
    /\ UnchangedDriver

\* lines 118-129: p -= the hole of the current hole name; next item or the slot
RemoveHole ==
    /\ pc = "hole"
    /\ LET item == hole_coord_list(pc104)[hole_idx]
       IN  p' = Append(p, hole_loop_body(part_spec, item[1], item[2])[2])
    /\ hole_idx' = hole_idx + 1
    /\ pc' = IF hole_idx < Len(hole_coord_list(pc104)) THEN "standoff" ELSE "slot"
    /\ UnchangedDriver

\* lines 131-144: p -= the header slot; return p
RemoveStackHeader ==
    /\ pc = "slot"
    /\ p' = Sub(p, header_slot(pc104))
    /\ pc' = "returned"
    /\ UNCHANGED hole_idx
    /\ UnchangedDriver

----------------------------------------------------------------------------
(* __main__ *)

UnchangedBuild == UNCHANGED <<entry, pc104, part_spec, p, hole_idx>>

\* lines 148-157: parts = {name: show(part)}; logger.info(...)
ShowParts ==
    /\ entry = "main"
    /\ pc = "returned"
    /\ log' = Append(log, <<"info", "Showing CAD model(s)">>)
    /\ pc' = "mkdir"
    /\ UNCHANGED <<part_idx, dir_exists, files, is_manifold, exported>>
    /\ UnchangedBuild

\* lines 159-161: mkdir(exist_ok=True)
MakeExportFolder ==
    /\ pc = "mkdir"
    /\ dir_exists' = TRUE
    /\ part_idx' = 1
    /\ pc' = IF Len(Parts) >= 1 THEN "assert" ELSE "done"
    /\ UNCHANGED <<files, is_manifold, log, exported>>
    /\ UnchangedBuild

\* lines 163-165: the isinstance assertion holds for the part show returned
AssertIsPart ==
    /\ pc = "assert"
    /\ pc' = "manifold"
    /\ UNCHANGED <<part_idx, dir_exists, files, is_manifold, log, exported>>
    /\ UnchangedBuild

\* Variant: a non-manifold part is warned about and then skipped.
CheckManifoldSkipsExport ==
    /\ pc = "manifold"
    /\ \E m \in {"true", "false"} :
          /\ is_manifold' = m
          /\ log' = IF m = "true" THEN log
                    ELSE Append(log, <<"warning", Parts[part_idx]>>)
          /\ pc' = IF m = "true" THEN "export_stl"
                   ELSE IF part_idx < Len(Parts) THEN "assert" ELSE "done"
          /\ part_idx' = IF m = "true" THEN part_idx ELSE part_idx + 1
    /\ UNCHANGED <<dir_exists, files, exported>>
    /\ UNCHANGED <<entry, pc104, part_spec, p, hole_idx>>

\* lines 166-167: if not part.is_manifold: logger.warning(...)
CheckManifold ==
    /\ pc = "manifold"
    /\ \E m \in {"true", "false"} :
          /\ is_manifold' = m
          /\ log' = IF m = "true" THEN log
                    ELSE Append(log, <<"warning", Parts[part_idx]>>)
    /\ pc' = "export_stl"
    /\ UNCHANGED <<part_idx, dir_exists, files, exported>>
    /\ UnchangedBuild

\* line 169: bd.export_stl
ExportStl ==
    /\ pc = "export_stl"
    /\ dir_exists
    /\ files' = [files EXCEPT ![StlName(Parts[part_idx])] = "new"]
    /\ exported' = Append(exported, StlName(Parts[part_idx]))
    /\ pc' = "export_step"
    /\ UNCHANGED <<part_idx, dir_exists, is_manifold, log>>
    /\ UnchangedBuild

\* line 170: bd.export_step; next part or the end of the script
ExportStep ==
    /\ pc = "export_step"
    /\ dir_exists
    /\ files' = [files EXCEPT ![StepName(Parts[part_idx])] = "new"]
    /\ exported' = Append(exported, StepName(Parts[part_idx]))
    /\ part_idx' = part_idx + 1
    /\ pc' = IF part_idx < Len(Parts) THEN "assert" ELSE "done"
    /\ UNCHANGED <<dir_exists, is_manifold, log>>
    /\ UnchangedBuild

----------------------------------------------------------------------------
(* Uncaught exceptions: any kernel or filesystem call may raise, which     *)
(* ends the run.  A failed export may leave a partial file behind.         *)

KernelSteps == {"base_plate", "standoff", "hole", "slot"}

DriverSteps == {"returned", "mkdir", "assert", "manifold"}

Raise ==
    /\ \/ pc \in KernelSteps
       \/ entry = "main" /\ pc \in DriverSteps
    /\ pc' = "crashed"
    /\ UNCHANGED <<entry, pc104, part_spec, p, hole_idx, part_idx, dir_exists,
                   files, is_manifold, log, exported>>

RaiseInExport ==
    /\ pc \in {"export_stl", "export_step"}
    /\ LET f == IF pc = "export_stl" THEN StlName(Parts[part_idx])
                ELSE StepName(Parts[part_idx])
       IN  \E left \in {files[f], "partial"} :
               files' = [files EXCEPT ![f] = left]
    /\ pc' = "crashed"
    /\ UNCHANGED <<entry, pc104, part_spec, p, hole_idx, part_idx, dir_exists,
                   is_manifold, log, exported>>

MakeNext == AddBasePlate \/ AddStandoff \/ RemoveHole \/ RemoveStackHeader

MainNext == ShowParts \/ MakeExportFolder \/ AssertIsPart \/ CheckManifold
            \/ ExportStl \/ ExportStep

Next == MakeNext \/ MainNext \/ Raise \/ RaiseInExport

Spec == Init /\ [][Next]_vars

----------------------------------------------------------------------------
(* Views of the state used by the properties below *)

Defaults == pc104 = PC104Default /\ part_spec = StandDefault

HoleCount == Len(hole_coord_list(pc104))

HoleName(k) == hole_coord_list(pc104)[k][1]

HoleCoord(k) == hole_coord_list(pc104)[k][2]

HoleKeys == {HoleName(k) : k \in 1..HoleCount}

\* The primitives of the returned solid, by their place in the pipeline.
PlatePrim == p[1].prim

StandoffPrim(k) == p[2 * k].prim

CutterPrim(k) == p[2 * k + 1].prim

SlotPrim == p[Len(p)].prim

Built == pc = "returned" /\ Len(p) = 2 * HoleCount + 2

ProbeZ(lo, hi) == {z \in lo..(hi - 1) : z % ProbeStep = 0 \/ z = lo \/ z = hi - 1}

----------------------------------------------------------------------------
\* C1: for every PC104Spec, whatever its fields, hole_coord_list has exactly
\* the four keys NW, NE, SW, SE, each once; for the default spec they map to
\* (0, 5.08), (85.73, 7.62), (0, -68.58) and (85.73, -72.39).
C1_HoleCoordList ==
    /\ HoleKeys = {"NW", "NE", "SW", "SE"}
    /\ HoleCount = 4
    /\ pc104 = PC104Default =>
         \A k \in 1..HoleCount :
            HoleCoord(k) = CASE HoleName(k) = "NW" -> <<0, 508>>
                             [] HoleName(k) = "NE" -> <<8573, 762>>
                             [] HoleName(k) = "SW" -> <<0, -6858>>
                             [] HoleName(k) = "SE" -> <<8573, -7239>>

\* A non-default spec (other origin, pitch, pin counts, outline) whose four
\* holes have all been used by the pipeline.
C1_Witness ==
    /\ Built
    /\ pc104.top_left_pin_coord # <<0, 0>>
    /\ pc104.pin_pitch # 254
    /\ pc104.pin_count_x = 1
    /\ pc104.box_height_y # 8810
    /\ \A k \in 1..HoleCount : <<StandoffPrim(k).at[1], StandoffPrim(k).at[2]>> = HoleCoord(k)

\* C2: for the default PC104Spec, stack_headers_center_coord is
\* (3.81, -31.75), and that is where the pipeline centres the header slot.
C2_DefaultHeaderCenter ==
    pc104 = PC104Default =>
        /\ stack_headers_center_coord(pc104) = <<381, -3175>>
        /\ Built => SlotPrim.at = <<381, -3175, 0>>

\* The script has built the default part, slot included.
C2_Witness ==
    /\ entry = "main"
    /\ Built
    /\ pc104 = PC104Default
    /\ p[Len(p)].op = "sub"

C4_BoundingBoxInFootprint ==
    (Defaults /\ p # <<>>) =>
        LET b    == BoundingBox(p)
            xlo  == pc104.box_top_left_coord[1]
            xhi  == pc104.box_top_left_coord[1] + pc104.box_width_x
            ylo  == pc104.box_top_left_coord[2] - pc104.box_height_y
            yhi  == pc104.box_top_left_coord[2]
        IN  /\ xlo <= b[1] /\ b[2] <= xhi
            /\ ylo <= b[3] /\ b[4] <= yhi
            /\ 0 <= b[5] /\ b[6] <= part_spec.standoff_total_height
            /\ \A i \in 1..Len(p) :
                  (p[i].op = "add" /\ p[i].prim.shape = "cyl") =>
                     /\ xlo <= p[i].prim.at[1] - p[i].prim.radius
                     /\ p[i].prim.at[1] + p[i].prim.radius <= xhi
                     /\ ylo <= p[i].prim.at[2] - p[i].prim.radius
                     /\ p[i].prim.at[2] + p[i].prim.radius <= yhi

\* The default part complete: the plate, four standoffs, four holes, the slot,
\* with the bounding box reaching the plate's edges and the standoffs' top.
C4_Witness ==
    /\ Defaults
    /\ Built
    /\ BoundingBox(p) = <<-440, 9014, -7647, 1163, 0, 950>>

----------------------------------------------------------------------------
(* The driver *)

ExpectedExports(n) ==
    [i \in 1..(2 * n) |-> IF i % 2 = 1 THEN StlName(Parts[(i + 1) \div 2])
                          ELSE StepName(Parts[i \div 2])]

Warnings == {i \in 1..Len(log) : log[i][1] = "warning"}

C5_DriverState ==
    entry = "main" =>
        \* exports happen only in the created directory, after the manifold check
        /\ exported # <<>> => dir_exists /\ is_manifold # "unread"
        \* STL first, then STEP, nothing else
        /\ \E n \in 0..(2 * Len(Parts)) : exported = SubSeq(ExpectedExports(Len(Parts)), 1, n)
        \* a warning is logged exactly for a non-manifold part
        /\ (Warnings # {}) <=> (is_manifold = "false")
        \* both outcomes of the check stand before the exports
        /\ pc \in {"export_stl", "export_step"} => is_manifold \in {"true", "false"}
        \* a run that ends normally has written both files of every part
        /\ pc = "done" =>
              /\ exported = ExpectedExports(Len(Parts))
              /\ \A f \in FileNames : files[f] = "new"
              /\ dir_exists

C5_DriverStep ==
    entry = "main" =>
        \* after the check, warned or not, the only way on is the STL export
        /\ (pc = "manifold" /\ pc' # "crashed") =>
              pc' = "export_stl" /\ exported' = exported
        /\ (pc = "export_stl" /\ pc' # "crashed") =>
              pc' = "export_step" /\ exported' = Append(exported, StlName(Parts[part_idx]))
        /\ (pc = "export_step" /\ pc' # "crashed") =>
              exported' = Append(exported, StepName(Parts[part_idx]))
        \* an exception ends the run: nothing is exported by it or after it
        /\ pc' = "crashed" => exported' = exported
        /\ pc = "crashed" => pc' = "crashed" /\ exported' = exported

\* C5: in the driver, whatever the manifold check says, a run that does not
\* raise exports the STL and then the STEP file of every part into the created
\* directory; a non-manifold part adds one logged warning and skips nothing;
\* an exception ends the run with no later export.
C5_DriverExports == []C5_DriverState /\ [][C5_DriverStep]_vars

\* A run that found the part non-manifold, warned, and still wrote both files
\* into a directory it had to create over nothing.
C5_Witness ==
    /\ entry = "main"
    /\ pc = "done"
    /\ is_manifold = "false"
    /\ Warnings # {}
    /\ exported = <<StlName("pc104_standoff"), StepName("pc104_standoff")>>

----------------------------------------------------------------------------
(* The holes *)

\* Whether the primitive spans the heights lo..hi
CoversZ(prim, lo, hi) == Lo(prim, 3) <= lo /\ hi <= Hi(prim, 3)

\* No material on the axis of hole k, nor just inside its wall, from lo up to hi
BoreEmpty(k, lo, hi) ==
    \A z \in ProbeZ(lo, hi) :
       \A d \in {0, Half(part_spec.standoff_id) - 1} :
          ~Material(p, <<HoleCoord(k)[1] + d, HoleCoord(k)[2], z>>)

\* C6 as stated, on the part the script builds from the default specs: each of
\* the four holes is a through-hole, its cutter covering the stack from the
\* bottom of the plate (z = 0) to the top of the standoff, so that no material
\* is left inside the inner radius at any height.
C6_AllHolesThrough ==
    (Built /\ Defaults) =>
        \A k \in 1..HoleCount :
           /\ CoversZ(CutterPrim(k), 0, part_spec.standoff_total_height)
           /\ BoreEmpty(k, 0, part_spec.standoff_total_height)

\* C6 amended: only the NW hole is cut from below the plate.  Its cutter spans
\* z in [-10, 10] and clears the whole stack when standoff_total_height <= 10.
\* The cutters of NE, SW and SE span [base_plate_thickness,
\* base_plate_thickness + 20]: they clear the standoff above the plate when
\* standoff_total_height <= base_plate_thickness + 20 and cut nothing below
\* the plate's top face, so for the default specs the plate stays solid under
\* these three holes.
C6_HoleDepths ==
    Built =>
        \A k \in 1..HoleCount :
           LET t   == part_spec.base_plate_thickness
               h   == part_spec.standoff_total_height
               cut == CutterPrim(k)
           IN  /\ Half(cut.size[1]) = Half(part_spec.standoff_id)
               /\ HoleName(k) = "NW" =>
                     /\ Lo(cut, 3) = NWCutterOffset
                     /\ Hi(cut, 3) = NWCutterOffset + HoleCutterHeight
                     /\ h <= NWCutterOffset + HoleCutterHeight =>
                           CoversZ(cut, 0, h) /\ BoreEmpty(k, 0, h)
               /\ HoleName(k) # "NW" =>
                     /\ Lo(cut, 3) = t
                     /\ Hi(cut, 3) = t + HoleCutterHeight
                     /\ ~CoversZ(cut, 0, h)
                     /\ h <= t + HoleCutterHeight => BoreEmpty(k, t, h)
                     /\ \A z \in ProbeZ(0, t) :
                           ~InPrim(cut, <<HoleCoord(k)[1], HoleCoord(k)[2], z>>)
                     /\ Defaults =>
                           \A z \in ProbeZ(0, t) :
                              Material(p, <<HoleCoord(k)[1], HoleCoord(k)[2], z>>)

\* The default part complete: NW bored through, the plate left under SE.
C6_Witness ==
    /\ Defaults
    /\ Built
    /\ ~Material(p, <<0, 508, 0>>)
    /\ Material(p, <<8573, -7239, 0>>)
    /\ ~Material(p, <<8573, -7239, 200>>)

----------------------------------------------------------------------------
(* The order of the operations *)

\* The operations the pipeline is to have applied, in order.
ExpectedKinds ==
    <<"add">> \o [i \in 1..(2 * HoleCount) |-> IF i % 2 = 1 THEN "add" ELSE "sub"]
              \o <<"sub">>

\* Points of the header slot's region: its corners, edge midpoints and centre
SlotProbes ==
    LET c == stack_headers_center_coord(pc104)
        w == pc104.pin_count_x * pc104.pin_pitch + SlotMarginX
        h == pc104.pin_count_y * pc104.pin_pitch + SlotMarginY
    IN  {<<c[1] + i * Half(w), c[2] + j * Half(h), z>> :
            i \in {-1, 0, 1}, j \in {-1, 0, 1}, z \in ProbeZ(0, SlotHeight)}

\* C7: the filleted base plate is added first; then, for NW, NE, SW, SE in
\* that order, the corner's standoff is added and its hole subtracted right
\* after it; the header slot is subtracted last, nothing is added after it,
\* and the returned solid has no material in the slot's region.
C7_FixedOrder ==
    /\ Len(p) <= Len(ExpectedKinds)
    /\ \A i \in 1..Len(p) : p[i].op = ExpectedKinds[i]
    /\ p # <<>> => p[1].prim.shape = "box" /\ p[1].prim.fillet = part_spec.plate_plate_corner_radius
    /\ \A k \in 1..HoleCount :
          /\ Len(p) >= 2 * k =>
                /\ StandoffPrim(k).shape = "cyl"
                /\ <<StandoffPrim(k).at[1], StandoffPrim(k).at[2]>> = HoleCoord(k)
                /\ Lo(StandoffPrim(k), 3) = 0
          /\ Len(p) >= 2 * k + 1 =>
                /\ CutterPrim(k).shape = "cyl"
                /\ <<CutterPrim(k).at[1], CutterPrim(k).at[2]>> = HoleCoord(k)
                /\ CutterPrim(k).radius = Half(part_spec.standoff_id)
    /\ <<HoleName(1), HoleName(2), HoleName(3), HoleName(4)>> = <<"NW", "NE", "SW", "SE">>
    /\ pc = "returned" =>
          /\ Len(p) = Len(ExpectedKinds)
          /\ SlotPrim.shape = "box"
          /\ \A pt \in SlotProbes : ~Material(p, pt)
    /\ pc \in {"base_plate", "standoff", "hole", "slot"} =>
          Len(p) = CASE pc = "base_plate" -> 0
                     [] pc = "standoff"   -> 2 * hole_idx - 1
                     [] pc = "hole"       -> 2 * hole_idx
                     [] pc = "slot"       -> 2 * HoleCount + 1

\* The third corner's standoff is on and its hole not yet cut, in a solid
\* whose first two holes are already cut.
C7_Witness ==
    /\ pc = "hole"
    /\ hole_idx = 3
    /\ Len(p) = 6
    /\ p[6].op = "add"
    /\ p[5].op = "sub"
    /\ Material(p, <<HoleCoord(3)[1], HoleCoord(3)[2], part_spec.standoff_total_height - 1>>)

----------------------------------------------------------------------------
(* The standoffs and the slot *)

\* C8: each corner's standoff has height standoff_total_height, its base at
\* z = 0, its centre at the corner's hole coordinate and outer radius
\* standoff_od_east/2 for NE and SE, standoff_od_west/2 for NW and SW (and for
\* any other name); every hole has radius standoff_id/2.
C8_StandoffDimensions ==
    /\ Built =>
          \A k \in 1..HoleCount :
             /\ p[2 * k].op = "add"
             /\ StandoffPrim(k).shape = "cyl"
             /\ Hi(StandoffPrim(k), 3) - Lo(StandoffPrim(k), 3) = part_spec.standoff_total_height
             /\ Lo(StandoffPrim(k), 3) = 0
             /\ Lo(StandoffPrim(k), 1) + Hi(StandoffPrim(k), 1) = 2 * HoleCoord(k)[1]
             /\ Lo(StandoffPrim(k), 2) + Hi(StandoffPrim(k), 2) = 2 * HoleCoord(k)[2]
             /\ 2 * StandoffPrim(k).radius =
                   IF HoleName(k) \in {"NE", "SE"} THEN part_spec.standoff_od_east
                   ELSE part_spec.standoff_od_west
             /\ Hi(StandoffPrim(k), 1) - Lo(StandoffPrim(k), 1) = 2 * StandoffPrim(k).radius
             /\ p[2 * k + 1].op = "sub"
             /\ CutterPrim(k).shape = "cyl"
             /\ 2 * CutterPrim(k).radius = part_spec.standoff_id
    /\ \A other \in {"N", "E", "ne", ""} :
          2 * standoff_radius(part_spec, other) = part_spec.standoff_od_west

\* A part whose east standoffs are wider than the default's, so that east and
\* west radii differ by more than in the default.
C8_Witness ==
    /\ Built
    /\ part_spec.standoff_od_east = 700
    /\ StandoffPrim(2).radius = 350
    /\ StandoffPrim(3).radius = 290
    /\ CutterPrim(4).radius = 175

\* C9: the header slot is a box of X size pin_count_x*pin_pitch + 8 and Y size
\* pin_count_y*pin_pitch + 3, centred in X and Y on stack_headers_center_coord
\* and spanning z from 0 to 20; for the default specs that span covers the
\* whole stack (plate thickness and standoff height are at most 20).
C9_HeaderSlot ==
    Built =>
        /\ p[Len(p)].op = "sub"
        /\ SlotPrim.shape = "box"
        /\ SlotPrim.fillet = 0
        /\ Hi(SlotPrim, 1) - Lo(SlotPrim, 1) = pc104.pin_count_x * pc104.pin_pitch + 800
        /\ Hi(SlotPrim, 2) - Lo(SlotPrim, 2) = pc104.pin_count_y * pc104.pin_pitch + 300
        /\ Lo(SlotPrim, 1) + Hi(SlotPrim, 1) = 2 * stack_headers_center_coord(pc104)[1]
        /\ Lo(SlotPrim, 2) + Hi(SlotPrim, 2) = 2 * stack_headers_center_coord(pc104)[2]
        /\ Lo(SlotPrim, 3) = 0
        /\ Hi(SlotPrim, 3) = 2000
        /\ Defaults =>
              /\ part_spec.base_plate_thickness <= 2000
              /\ part_spec.standoff_total_height <= 2000
              /\ CoversZ(SlotPrim, 0, part_spec.standoff_total_height)
              /\ <<Lo(SlotPrim, 1), Hi(SlotPrim, 1)>> = <<-527, 1289>>
              /\ <<Lo(SlotPrim, 2), Hi(SlotPrim, 2)>> = <<-6627, 277>>

\* A slot cut for a pin grid and origin other than the default's.
C9_Witness ==
    /\ Built
    /\ pc104.pin_count_x = 2
    /\ pc104.pin_count_y = 25
    /\ pc104.pin_pitch = 200
    /\ pc104.top_left_pin_coord = <<126, -254>>
    /\ SlotPrim.size = <<1200, 5300, 2000>>

----------------------------------------------------------------------------
(* Interference between the features *)

\* Whether the rectangle [x0, x1] x [y0, y1] and the disc of radius r about c
\* share an area.
RectMeetsDisc(x0, x1, y0, y1, c, r) ==
    LET dx == Max2(0, Max2(x0 - c[1], c[1] - x1))
        dy == Max2(0, Max2(y0 - c[2], c[2] - y1))
    IN  dx * dx + dy * dy < r * r

DiscsMeet(c1, r1, c2, r2) ==
    LET dx == c1[1] - c2[1]
        dy == c1[2] - c2[2]
    IN  dx * dx + dy * dy < (r1 + r2) * (r1 + r2)

SlotMeetsDisc(c, r) ==
    RectMeetsDisc(Lo(SlotPrim, 1), Hi(SlotPrim, 1), Lo(SlotPrim, 2), Hi(SlotPrim, 2), c, r)

SlotInsidePlate ==
    /\ Lo(PlatePrim, 1) <= Lo(SlotPrim, 1) /\ Hi(SlotPrim, 1) <= Hi(PlatePrim, 1)
    /\ Lo(PlatePrim, 2) <= Lo(SlotPrim, 2) /\ Hi(SlotPrim, 2) <= Hi(PlatePrim, 2)

LaterStandoffsSpareHoles ==
    \A j \in 1..HoleCount : \A k \in (j + 1)..HoleCount :
       ~DiscsMeet(HoleCoord(k), StandoffPrim(k).radius, HoleCoord(j), CutterPrim(j).radius)

\* C10 as stated: for the default specs the slot's footprint lies inside the
\* plate rectangle and is disjoint from the outer footprint of every standoff,
\* and no standoff added later overlaps a hole drilled earlier.
C10_NoInterference ==
    (Built /\ Defaults) =>
        /\ SlotInsidePlate
        /\ \A k \in 1..HoleCount : ~SlotMeetsDisc(HoleCoord(k), StandoffPrim(k).radius)
        /\ LaterStandoffsSpareHoles

\* C10 amended: for the default specs the slot's footprint lies inside the
\* plate rectangle on its north, south and east sides but reaches 0.87 mm
\* beyond the plate's west edge; it is disjoint from the NE and SE standoffs
\* and from the bore of every hole, but cuts into the outer wall of the NW and
\* SW standoffs (its edge passes 2.31 mm from their axes, inside the 2.9 mm
\* outer radius and outside the 1.75 mm bore); no standoff added later
\* overlaps a hole drilled earlier.
C10_SlotClipsWestStandoffs ==
    (Built /\ Defaults) =>
        /\ Lo(PlatePrim, 2) <= Lo(SlotPrim, 2) /\ Hi(SlotPrim, 2) <= Hi(PlatePrim, 2)
        /\ Hi(SlotPrim, 1) <= Hi(PlatePrim, 1)
        /\ Lo(PlatePrim, 1) - Lo(SlotPrim, 1) = 87
        /\ \A k \in 1..HoleCount :
              /\ ~SlotMeetsDisc(HoleCoord(k), CutterPrim(k).radius)
              /\ SlotMeetsDisc(HoleCoord(k), StandoffPrim(k).radius)
                    <=> HoleName(k) \in {"NW", "SW"}
              /\ HoleName(k) \in {"NW", "SW"} =>
                    /\ SlotMeetsDisc(HoleCoord(k), 232)
                    /\ ~SlotMeetsDisc(HoleCoord(k), 231)
        /\ LaterStandoffsSpareHoles
        \* the clipped part of the NW and SW walls is gone, the rest stands
        /\ ~Material(p, <<0, 508 - 280, 500>>) /\ Material(p, <<0, 508 - 200, 500>>)
        /\ ~Material(p, <<0, -6858 + 280, 500>>) /\ Material(p, <<0, -6858 + 200, 500>>)
        /\ Material(p, <<8573, 762 - 300, 500>>) /\ Material(p, <<8573, -7239 + 300, 500>>)

\* The default part complete, with the slot cut through the plate's west edge.
C10_Witness ==
    /\ Defaults
    /\ Built
    /\ Lo(SlotPrim, 1) < Lo(PlatePrim, 1)
    /\ ~Material(p, <<-440, -3175, 0>>)

====
